---- MODULE Spec2Model ----
(***************************************************************************)
(* Model of scripts/batch_add_songs.py: the candidate-resolution pipeline  *)
(* (query generation, title filter, ranking), the persisted progress       *)
(* ledger (.song_progress.json) and the three run modes of main():         *)
(* single-phase, --search-only and --download-from.                        *)
(*                                                                         *)
(* Strings of the program are sequences of one-character strings, so that  *)
(* the regular-expression clean-ups are computed and not assumed.          *)
(***************************************************************************)
EXTENDS Integers, Sequences, FiniteSets, TLC

(***************************************************************************)
(* Bounds of the model.                                                    *)
(***************************************************************************)
\* longest source list (SONGS_TO_ADD.md) that is explored
MaxSongs == 2
\* largest positional `count` argument
MaxCount == 2
\* largest --top argument
MaxTop == 2
\* largest `count` of a --search-only run, that is the longest candidate batch
\* the script itself writes
MaxBatch == 1

(***************************************************************************)
(* Characters and the string helpers of Python's str / re.                 *)
(***************************************************************************)
LowerLetters == {"a", "b", "c", "d", "e", "f", "g", "h", "i", "j", "k", "l", "m",
                 "n", "o", "p", "q", "r", "s", "t", "u", "v", "w", "x", "y", "z"}

UpperToLower == [A |-> "a", B |-> "b", C |-> "c", D |-> "d", E |-> "e", F |-> "f",
                 G |-> "g", H |-> "h", I |-> "i", J |-> "j", K |-> "k", L |-> "l",
                 M |-> "m", N |-> "n", O |-> "o", P |-> "p", Q |-> "q", R |-> "r",
                 S |-> "s", T |-> "t", U |-> "u", V |-> "v", W |-> "w", X |-> "x",
                 Y |-> "y", Z |-> "z"]

Digits == {"0", "1", "2", "3", "4", "5", "6", "7", "8", "9"}

\* str.lower() on one character
LowerChar(c) == IF c \in DOMAIN UpperToLower THEN UpperToLower[c] ELSE c

\* the class \s of re (the only white space of the alphabet is the blank)
IsSpace(c) == c = " "

\* the class \w of re: letters, digits and the underscore
IsWord(c) == \/ c \in LowerLetters
             \/ c \in DOMAIN UpperToLower
             \/ c \in Digits
             \/ c = "_"

\* str.lower()
Lower(s) == [i \in 1..Len(s) |-> LowerChar(s[i])]

\* s[from:] of Python, with a 1-based first index
DropTo(s, from) == SubSeq(s, from, Len(s))

\* number of blanks at the front of s
RECURSIVE LeadingSpaces(_)
LeadingSpaces(s) ==
    IF s # <<>> /\ IsSpace(s[1]) THEN 1 + LeadingSpaces(Tail(s)) ELSE 0

\* number of blanks at the end of s
RECURSIVE TrailingSpaces(_)
TrailingSpaces(s) ==
    IF s # <<>> /\ IsSpace(s[Len(s)])
    THEN 1 + TrailingSpaces(SubSeq(s, 1, Len(s) - 1))
    ELSE 0

\* str.strip()
Strip(s) ==
    IF LeadingSpaces(s) = Len(s) THEN <<>>
    ELSE SubSeq(s, LeadingSpaces(s) + 1, Len(s) - TrailingSpaces(s))

\* re.sub(r'\s+', ' ', s)
RECURSIVE CollapseSpaces(_)
CollapseSpaces(s) ==
    IF s = <<>> THEN <<>>
    ELSE IF IsSpace(s[1])
         THEN <<" ">> \o CollapseSpaces(DropTo(s, LeadingSpaces(s) + 1))
         ELSE <<s[1]>> \o CollapseSpaces(Tail(s))

\* re.sub(r'[^\w\s]', '', s)
RemovePunctuation(s) == SelectSeq(s, LAMBDA c : IsWord(c) \/ IsSpace(c))

\* the positions of s that hold character c
PositionsOf(s, c) == {i \in 1..Len(s) : s[i] = c}

Min(S) == CHOOSE x \in S : \A y \in S : x <= y

\* re.sub(r'\s*\([^)]*\)\s*', ' ', s): the leftmost "(" that has a ")" after it
\* is the first "("; the match takes the blanks before it, everything up to
\* the first ")" after it, and the blanks after that
RECURSIVE RemoveParentheticals(_)
RemoveParentheticals(s) ==
    LET opens == PositionsOf(s, "(")
    IN  IF opens = {} THEN s
        ELSE LET o == Min(opens)
                 closes == {j \in PositionsOf(s, ")") : j > o}
             IN  IF closes = {} THEN s
                 ELSE LET c == Min(closes)
                          before == SubSeq(s, 1, o - 1)
                          after == DropTo(s, c + 1)
                      IN  SubSeq(before, 1, Len(before) - TrailingSpaces(before))
                          \o <<" ">>
                          \o RemoveParentheticals(DropTo(after, LeadingSpaces(after) + 1))

\* s.split('/')[0]
BeforeSlash(s) ==
    IF PositionsOf(s, "/") = {} THEN s
    ELSE SubSeq(s, 1, Min(PositionsOf(s, "/")) - 1)

\* the text before position p, without the blanks that end it
\* (a match of \s*X.+$ that finds X at p starts at the blanks before p)
CutBefore(s, p) ==
    LET before == SubSeq(s, 1, p - 1)
    IN  SubSeq(before, 1, Len(before) - TrailingSpaces(before))

\* re.sub(r'\s*ft\.?\s*.+$', '', s, flags=re.IGNORECASE): "ft" followed by at
\* least one more character
RemoveFt(s) ==
    LET hits == {i \in 1..Len(s) - 2 :
                    LowerChar(s[i]) = "f" /\ LowerChar(s[i + 1]) = "t"}
    IN  IF hits = {} THEN s ELSE CutBefore(s, Min(hits))

\* re.sub(r'\s*x\s+.+$', '', s, flags=re.IGNORECASE): "x", a blank and at
\* least one more character
RemoveX(s) ==
    LET hits == {i \in 1..Len(s) - 2 :
                    LowerChar(s[i]) = "x" /\ IsSpace(s[i + 1])}
    IN  IF hits = {} THEN s ELSE CutBefore(s, Min(hits))

\* s.split()[0] if s.split() else s
FirstWord(s) ==
    LET t == DropTo(s, LeadingSpaces(s) + 1)
        blanks == PositionsOf(t, " ")
    IN  IF t = <<>> THEN s
        ELSE IF blanks = {} THEN t
        ELSE SubSeq(t, 1, Min(blanks) - 1)

\* a in b of Python, on strings
Contains(b, a) ==
    \E i \in 0..(Len(b) - Len(a)) : SubSeq(b, i + 1, i + Len(a)) = a

\* the set of the elements of a sequence
Range(s) == {s[i] : i \in 1..Len(s)}

(***************************************************************************)
(* Text Normalizer and Match Filter.                                       *)
(***************************************************************************)
normalize_for_comparison(s) ==
    Strip(CollapseSpaces(RemovePunctuation(Lower(s))))

title_matches(search_title, result_title) ==
    LET search_norm == normalize_for_comparison(search_title)
        result_norm == normalize_for_comparison(result_title)
    IN  Contains(result_norm, search_norm) \/ Contains(search_norm, result_norm)

\* the title without parentheticals, as process_song and collect_candidates
\* and get_search_queries compute it
title_clean_of(title) == CollapseSpaces(Strip(RemoveParentheticals(title)))

(***************************************************************************)
(* Query Generator.                                                        *)
(***************************************************************************)
\* (variant) a list that keeps its duplicates and its empty strings
all_queries(queries, seen) == queries

\* the order-preserving removal of duplicates and empty strings
RECURSIVE unique_queries(_, _)
unique_queries(queries, seen) ==
    IF queries = <<>> THEN <<>>
    ELSE LET q == Head(queries)
         IN  IF q # <<>> /\ q \notin seen
             THEN <<q>> \o unique_queries(Tail(queries), seen \cup {q})
             ELSE unique_queries(Tail(queries), seen)

get_search_queries(title, artist) ==
    LET title_clean == title_clean_of(title)
        artist_clean == RemoveX(RemoveFt(Strip(BeforeSlash(artist))))
        title_simple == CollapseSpaces(Strip(RemovePunctuation(title_clean)))
        artist_simple == Strip(RemovePunctuation(artist_clean))
        title_first_word == FirstWord(title_simple)
        queries == << title_clean,
                      title_clean \o <<" ">> \o artist_clean,
                      title_simple,
                      title_simple \o <<" ">> \o artist_simple,
                      artist_clean >>
                   \o (IF title_simple # title_clean THEN <<title_simple>> ELSE <<>>)
                   \o (IF Len(title_first_word) > 3 THEN <<title_first_word>> ELSE <<>>)
    IN  unique_queries(queries, {})

(***************************************************************************)
(* The data the model is explored on: requested items, remote results and  *)
(* the pages the search collaborator may answer with.                      *)
(***************************************************************************)
Blue == <<"B", "l", "u", "e">>

GoLive == <<"G", "o", " ", "(", "L", "i", "v", "e", ")">>

\* the character U+2014 (em dash), one element of a string
EmDash == "--"

\* the canonical line of load_songs for a title and an artist without a
\* description, which is also the fallback key of an entry of the batch file
DefaultLine(title, artist) == <<"-", " ">> \o title \o <<" ", EmDash, " ">> \o artist

\* a requested item (title, artist, canonical) as load_songs yields it
Song(title, artist) ==
    [title |-> title, artist |-> artist, line |-> DefaultLine(title, artist)]

\* two requests with the same title and different artists, and one whose
\* title carries a parenthetical
Items == {Song(Blue, <<"X">>), Song(Blue, <<"Y">>), Song(GoLive, <<"Z">>)}

\* a JSON number and the JSON null, as values of popularityScore
JsonNum(n) == <<n>>

JsonNull == <<>>

ResultA == [id |-> "A", title |-> Blue, artist |-> <<"X">>,
            popularityScore |-> JsonNum(10)]

ResultB == [id |-> "B", title |-> Blue \o <<" ", "(", "R", "e", "m", "i", "x", ")">>,
            artist |-> <<"Y">>, popularityScore |-> JsonNum(20)]

ResultC == [id |-> "C", title |-> <<"G", "o", " ">> \o Blue, artist |-> <<"Z">>,
            popularityScore |-> JsonNum(20)]

\* a result without popularityScore whose title matches no requested item
ResultD == [id |-> "D", title |-> <<"O", "t", "h", "e", "r">>, artist |-> <<"Q">>]

\* a result whose popularityScore is null
ResultE == [id |-> "E", title |-> <<"G", "o">>, artist |-> <<"Z">>,
            popularityScore |-> JsonNull]

Ids == {"A", "B", "C", "D", "E"}

\* the answers of search_songs that are explored: nothing (or a transport
\* error), a page with a popularity tie, a null popularity and a repeated id,
\* and a page without a title match
ResultPages == { <<>>,
                 <<ResultA, ResultB, ResultC, ResultE, ResultA>>,
                 <<ResultD>> }

\* selectedId: null in the batch file, None in Python
None == "None"

(***************************************************************************)
(* Progress Ledger: the document of .song_progress.json.                   *)
(***************************************************************************)
\* load_progress when the file does not exist
EmptyProgress == [processed |-> <<>>, added |-> <<>>, failed |-> <<>>, skipped |-> <<>>]

AddedRecord(title, artist, song_id) ==
    [title |-> title, artist |-> artist, song_id |-> song_id]

ReasonRecord(title, artist, reason) ==
    [title |-> title, artist |-> artist, reason |-> reason]

\* the reason f"Failed with id {song_id}" of process_selected_song
FailedWithId == [A |-> "Failed with id A", B |-> "Failed with id B",
                 C |-> "Failed with id C", D |-> "Failed with id D",
                 E |-> "Failed with id E"]

\* [s for s in progress["skipped"] if s.get("title") != title]
WithoutTitle(skipped, title) == SelectSeq(skipped, LAMBDA s : s.title # title)

\* (variant) the skipped record without the append to processed
RecordSkippedUnprocessed(p, title, artist, original_line, reason) ==
    [p EXCEPT !.skipped = Append(@, ReasonRecord(title, artist, reason))]

\* process_song, no results or no title match: the skipped record
RecordSkipped(p, title, artist, original_line, reason) ==
    [p EXCEPT !.skipped = Append(@, ReasonRecord(title, artist, reason)),
              !.processed = Append(@, original_line)]

\* (variant) the added record without the append to processed
RecordAddedUnprocessed(p, title, artist, original_line, song_id) ==
    [p EXCEPT !.added = Append(@, AddedRecord(title, artist, song_id)),
              !.skipped = WithoutTitle(@, title)]

\* process_song and process_selected_song, import succeeded
RecordAdded(p, title, artist, original_line, song_id) ==
    [p EXCEPT !.added = Append(@, AddedRecord(title, artist, song_id)),
              !.processed = Append(@, original_line),
              !.skipped = WithoutTitle(@, title)]

\* (variant) the failed record written as a skipped one
RecordFailedAsSkipped(p, title, artist, original_line, reason) ==
    [p EXCEPT !.skipped = Append(@, ReasonRecord(title, artist, reason)),
              !.processed = Append(@, original_line)]

\* process_song, every candidate failed; process_selected_song, import failed
RecordFailed(p, title, artist, original_line, reason) ==
    [p EXCEPT !.failed = Append(@, ReasonRecord(title, artist, reason)),
              !.processed = Append(@, original_line)]

\* (variant) the entry marked processed without a skipped record
RecordUnselectedNoRecord(p, title, artist, original_line) ==
    [p EXCEPT !.skipped = WithoutTitle(@, title),
              !.processed = Append(@, original_line)]

\* main, --download-from with --mark-unselected-skipped and no selectedId
RecordUnselected(p, title, artist, original_line) ==
    [p EXCEPT !.skipped = Append(WithoutTitle(@, title),
                                 ReasonRecord(title, artist, "No selectedId in candidates")),
              !.processed = Append(@, original_line)]

(***************************************************************************)
(* Resolution Pipeline: the parts process_song and collect_candidates      *)
(* share textually.                                                        *)
(***************************************************************************)
\* the loop over enumerate(results): a result is kept, with its index in the
\* page, unless its id is already there
RECURSIVE AddResults(_, _, _)
AddResults(all, results, idx) ==
    IF results = <<>> THEN all
    ELSE LET result == Head(results)
             isNew == \A k \in 1..Len(all) : all[k].r.id # result.id
         IN  AddResults(IF isNew THEN Append(all, [r |-> result, idx |-> idx]) ELSE all,
                        Tail(results), idx + 1)

\* the list comprehension with title_matches
MatchingResults(title, all) ==
    SelectSeq(all, LAMBDA x : title_matches(title_clean_of(title), x.r.title))

\* result.get('popularityScore', 0) or 0
Popularity(result) ==
    IF "popularityScore" \notin DOMAIN result THEN 0
    ELSE IF result.popularityScore = JsonNull THEN 0
    ELSE result.popularityScore[1]

\* (variant) the keys (popularity, idx): the least popular first
KeyLessAscending(a, b) ==
    \/ Popularity(a.r) < Popularity(b.r)
    \/ Popularity(a.r) = Popularity(b.r) /\ a.idx < b.idx

\* sort_key(a) < sort_key(b), the keys being the pairs (-popularity, idx)
KeyLess(a, b) ==
    \/ -Popularity(a.r) < -Popularity(b.r)
    \/ -Popularity(a.r) = -Popularity(b.r) /\ a.idx < b.idx

\* list.sort(key=sort_key): a stable insertion sort
RECURSIVE InsertSorted(_, _)
InsertSorted(sorted, x) ==
    IF sorted = <<>> THEN <<x>>
    ELSE IF KeyLess(x, Head(sorted)) THEN <<x>> \o sorted
    ELSE <<Head(sorted)>> \o InsertSorted(Tail(sorted), x)

RECURSIVE SortResults(_)
SortResults(results) ==
    IF results = <<>> THEN <<>>
    ELSE InsertSorted(SortResults(SubSeq(results, 1, Len(results) - 1)),
                      results[Len(results)])

(***************************************************************************)
(* State.                                                                  *)
(***************************************************************************)
VARIABLES
    songs,             \* load_songs(): the items of SONGS_TO_ADD.md, in order
    remote,            \* the remote service: what search_songs and add_song answer
    kept,              \* the copy of the ledger the operator has put aside
    written_top,       \* history: --top of the run that wrote the candidates file
    disk,              \* the document in PROGRESS_FILE
    torn,              \* PROGRESS_FILE holds no document: a write was cut short
    candFile,          \* the candidates file: [readable, data]
    pc,                \* where the running process is; "idle": no process
    args,              \* the parsed command line of the running process
    progress,          \* main's progress (in memory)
    processed_set,     \* main's processed_set
    to_process,        \* main's to_process
    candidates_data,   \* main's candidates_data (--download-from)
    collected,         \* main's collected (--search-only)
    i,                 \* items (or entries) of the loop that are done
    queries,           \* process_song / collect_candidates: queries
    qi,                \* the query the loop is at (1-based)
    all_results,       \* all_results
    used_query,        \* collect_candidates: used_query (<<>> is None)
    matching_results,  \* matching_results, sorted
    ci,                \* the candidate the loop is at (1-based)
    searched,          \* history: the search_songs calls made for the current item
    imported,          \* history: the add_song calls made for the current item
    handled,           \* history: the outcome of every item of this run
    ledger0,           \* history: the document load_progress returned to this run
    last_exit          \* history: how the last process ended

\* the environment of the runs and the history of the candidates file: only
\* WriteCandidates changes written_top, and no run changes the rest
world == <<songs, remote, kept, written_top>>

files == <<world, disk, torn, candFile>>

runVars == <<args, progress, processed_set, to_process, candidates_data, collected,
             ledger0>>

itemVars == <<queries, qi, all_results, used_query, matching_results, ci>>

callVars == <<searched, imported>>

vars == <<songs, remote, kept, written_top, disk, torn, candFile, pc, args, progress,
          processed_set, to_process, candidates_data, collected, i, queries, qi,
          all_results, used_query, matching_results, ci, searched, imported, handled, ledger0, last_exit>>

\* the positional count and --top values that are explored
Counts == 0..MaxCount

Tops == 0..MaxTop

\* the count values of --search-only runs that are explored
BatchCounts == 0..MaxBatch

\* the source lists that are explored: every list of 1..MaxSongs items,
\* repeated lines included (load_songs keeps them)
SongLists == UNION {[1..n -> Items] : n \in 1..MaxSongs}

NoArgs == [mode |-> "none", count |-> 0, dry_run |-> FALSE, top |-> 0,
           mark_unselected_skipped |-> FALSE]

\* (variant) the slice that ignores the limit
PrefixUnlimited(s, n) == s

\* s[:n] of Python
Prefix(s, n) ==
    IF n >= 0 THEN SubSeq(s, 1, IF n < Len(s) THEN n ELSE Len(s))
    ELSE SubSeq(s, 1, IF Len(s) + n > 0 THEN Len(s) + n ELSE 0)

\* (variant) the list without the filter on processed_set
RemainingUnfiltered(list, processed) == list

\* main: [(t, a, l) for t, a, l in songs if l not in processed_set]
Remaining(list, processed) == SelectSeq(list, LAMBDA s : s.line \notin processed)

\* get_firebase_token(): a token, or None
Tokens == {None, "token"}

\* a remote service of which nothing is known: every call may answer anything
AnyRemote == [fixed |-> FALSE, first |-> <<>>, rest |-> <<>>, ok |-> {}]

\* the queries that are the first query of a requested item
FirstQueries == {title_clean_of(item.title) : item \in Items}

\* search_songs(query, token): the pages the call may return. A fixed remote
\* answers as a function of the query: one page to the first query of an
\* item, one page to every other query.
Answers(query) ==
    IF ~remote.fixed THEN ResultPages
    ELSE {IF query \in FirstQueries THEN remote.first ELSE remote.rest}

\* (variant) an import whose outcome is not a function of the id
OutcomesUnrelated(song_id) == BOOLEAN

\* add_song(song_id, token): whether the call may succeed. A fixed remote
\* answers as a function of the id.
Outcomes(song_id) ==
    IF ~remote.fixed THEN BOOLEAN ELSE {song_id \in remote.ok}

Init ==
    /\ songs \in SongLists
    /\ remote = AnyRemote
    /\ kept = <<>>
    /\ written_top = 0
    /\ disk = EmptyProgress
    /\ torn = FALSE
    /\ candFile = [readable |-> FALSE, data |-> <<>>]
    /\ pc = "idle"
    /\ args = NoArgs
    /\ progress = EmptyProgress
    /\ processed_set = {}
    /\ to_process = <<>>
    /\ candidates_data = <<>>
    /\ collected = <<>>
    /\ i = 0
    /\ queries = <<>>
    /\ qi = 0
    /\ all_results = <<>>
    /\ used_query = <<>>
    /\ matching_results = <<>>
    /\ ci = 0
    /\ searched = <<>>
    /\ imported = <<>>
    /\ handled = <<>>
    /\ ledger0 = EmptyProgress
    /\ last_exit = "none"

\* the process is gone: nothing of its memory is left
ProcessEnds(how) ==
    /\ pc' = "idle"
    /\ args' = NoArgs
    /\ progress' = EmptyProgress
    /\ processed_set' = {}
    /\ to_process' = <<>>
    /\ candidates_data' = <<>>
    /\ collected' = <<>>
    /\ i' = 0
    /\ queries' = <<>>
    /\ qi' = 0
    /\ all_results' = <<>>
    /\ used_query' = <<>>
    /\ matching_results' = <<>>
    /\ ci' = 0
    /\ searched' = <<>>
    /\ imported' = <<>>
    /\ handled' = <<>>
    /\ ledger0' = EmptyProgress
    /\ last_exit' = how

\* main, line 477: load_progress on a file that holds no document; json.load
\* raises and the process ends, whatever its mode
LoadCrashes ==
    /\ pc = "idle"
    /\ torn
    /\ ProcessEnds("crashed")
    /\ UNCHANGED <<world, disk, torn, candFile>>

\* main, lines 474-480: songs and progress are loaded
LoadsProgress ==
    /\ progress' = disk
    /\ ledger0' = disk
    /\ processed_set' = Range(disk.processed)

\* the current item of the for loop of main
cur == to_process[i + 1]

(***************************************************************************)
(* Single-phase mode: main, lines 584-613, and process_song.               *)
(***************************************************************************)
\* main, lines 584-587: nothing remains
SingleAllProcessed ==
    /\ pc = "idle"
    /\ ~torn
    /\ Remaining(songs, Range(disk.processed)) = <<>>
    /\ ProcessEnds("all_processed")
    /\ UNCHANGED files

\* main, lines 598-601: no token
SingleNoToken ==
    /\ pc = "idle"
    /\ ~torn
    /\ Remaining(songs, Range(disk.processed)) # <<>>
    /\ \E token \in Tokens : token = None
    /\ ProcessEnds("no_token")
    /\ UNCHANGED files

\* main, lines 474-480 and 589-602: the run starts
StartSingle(count, dry_run) ==
    /\ pc = "idle"
    /\ ~torn
    /\ Remaining(songs, Range(disk.processed)) # <<>>
    /\ \E token \in Tokens : token # None
    /\ LoadsProgress
    /\ args' = [NoArgs EXCEPT !.mode = "single", !.count = count, !.dry_run = dry_run]
    /\ to_process' = Prefix(Remaining(songs, Range(disk.processed)), count)
    /\ i' = 0
    /\ handled' = <<>>
    /\ pc' = "single"
    /\ last_exit' = "running"
    /\ UNCHANGED <<files, candidates_data, collected, itemVars, callVars>>

\* process_song, lines 311-315: the queries of the next item
BeginSong ==
    /\ pc = "single"
    /\ i < Len(to_process)
    /\ queries' = get_search_queries(cur.title, cur.artist)
    /\ qi' = 1
    /\ all_results' = <<>>
    /\ matching_results' = <<>>
    /\ ci' = 0
    /\ searched' = <<>>
    /\ imported' = <<>>
    /\ pc' = IF get_search_queries(cur.title, cur.artist) = <<>> THEN "filter" ELSE "search"
    /\ UNCHANGED <<files, runVars, i, used_query, handled, last_exit>>

\* (variant) a loop that sends the next query after a non-empty answer
SearchQueryGoesOn ==
    /\ pc = "search"
    /\ \E results \in Answers(queries[qi]) :
        /\ searched' = Append(searched, [query |-> queries[qi], n |-> Len(results)])
        /\ all_results' = IF results # <<>> THEN AddResults(all_results, results, 0)
                          ELSE all_results
        /\ IF qi = Len(queries)
           THEN pc' = "filter" /\ qi' = qi
           ELSE pc' = "search" /\ qi' = qi + 1
    /\ UNCHANGED <<files, runVars, i, queries, used_query, matching_results, ci,
                   imported, handled, last_exit>>

\* process_song, lines 317-327: one search_songs call
SearchQuery ==
    /\ pc = "search"
    /\ \E results \in Answers(queries[qi]) :
        /\ searched' = Append(searched, [query |-> queries[qi], n |-> Len(results)])
        /\ all_results' = IF results # <<>> THEN AddResults(all_results, results, 0)
                          ELSE all_results
        /\ IF results # <<>> \/ qi = Len(queries)
           THEN pc' = "filter" /\ qi' = qi
           ELSE pc' = "search" /\ qi' = qi + 1
    /\ UNCHANGED <<files, runVars, i, queries, used_query, matching_results, ci,
                   imported, handled, last_exit>>

\* an item is done: the loop of main goes on
ItemDone(outcome) ==
    /\ handled' = Append(handled, [line |-> cur.line, outcome |-> outcome])
    /\ i' = i + 1
    /\ pc' = "single"

\* save_progress(progress) after the update
Saves == disk' = progress'

\* process_song, lines 329-334
NoResults ==
    /\ pc = "filter"
    /\ all_results = <<>>
    /\ progress' = RecordSkipped(progress, cur.title, cur.artist, cur.line,
                                 "No results found")
    /\ Saves
    /\ ItemDone("skipped")
    /\ UNCHANGED <<world, torn, candFile, args, processed_set, to_process, candidates_data,
                   collected, ledger0, itemVars, callVars, last_exit>>

\* process_song, lines 338-351
NoTitleMatch ==
    /\ pc = "filter"
    /\ all_results # <<>>
    /\ MatchingResults(cur.title, all_results) = <<>>
    /\ progress' = RecordSkipped(progress, cur.title, cur.artist, cur.line,
                                 "No title match")
    /\ Saves
    /\ ItemDone("skipped")
    /\ UNCHANGED <<world, torn, candFile, args, processed_set, to_process, candidates_data,
                   collected, ledger0, itemVars, callVars, last_exit>>

\* process_song, lines 341-361: the candidates, ranked
RankCandidates ==
    /\ pc = "filter"
    /\ MatchingResults(cur.title, all_results) # <<>>
    /\ matching_results' = SortResults(MatchingResults(cur.title, all_results))
    /\ ci' = 1
    /\ pc' = "import"
    /\ UNCHANGED <<files, runVars, i, queries, qi, all_results, used_query, callVars,
                   handled, last_exit>>

\* (variant) a dry run that marks the reported item processed
DryRunReportMarks ==
    /\ pc = "import"
    /\ ci <= Len(matching_results)
    /\ args.dry_run
    /\ progress' = [progress EXCEPT !.processed = Append(@, cur.line)]
    /\ disk' = progress'
    /\ ItemDone("dry_run")
    /\ UNCHANGED <<world, torn, candFile, args, processed_set, to_process, candidates_data,
                   collected, ledger0, itemVars, callVars, last_exit>>

\* process_song, lines 372-374
DryRunReport ==
    /\ pc = "import"
    /\ ci <= Len(matching_results)
    /\ args.dry_run
    /\ ItemDone("dry_run")
    /\ UNCHANGED <<files, runVars, itemVars, callVars, last_exit>>

\* (variant) the loop that passes over a candidate after a failure
NextCandidateSkips(k) == k + 2

\* process_song, line 364: the for loop goes to the next candidate
NextCandidate(k) == k + 1

\* process_song, lines 364-376: one add_song call, until it has returned
ImportCandidate ==
    /\ pc = "import"
    /\ ci <= Len(matching_results)
    /\ ~args.dry_run
    /\ LET song_id == matching_results[ci].r.id
       IN  \E ok \in Outcomes(song_id) :
               imported' = Append(imported, [id |-> song_id, ok |-> ok])
    /\ pc' = "imported"
    /\ UNCHANGED <<files, runVars, i, itemVars, searched, handled, last_exit>>

\* process_song, lines 377-386: the answer of add_song is acted upon
RecordImport ==
    /\ pc = "imported"
    /\ LET call == imported[Len(imported)]
       IN  IF call.ok
           THEN /\ progress' = RecordAdded(progress, cur.title, cur.artist, cur.line,
                                           call.id)
                /\ Saves
                /\ ItemDone("added")
                /\ UNCHANGED ci
           ELSE /\ ci' = NextCandidate(ci)
                /\ pc' = "import"
                /\ UNCHANGED <<disk, progress, handled, i>>
    /\ UNCHANGED <<world, torn, candFile, args, processed_set, to_process, candidates_data,
                   collected, ledger0, queries, qi, all_results, used_query,
                   matching_results, callVars, last_exit>>

\* process_song, lines 389-393
AllFailed ==
    /\ pc = "import"
    /\ ci > Len(matching_results)
    /\ progress' = RecordFailed(progress, cur.title, cur.artist, cur.line,
                                "All candidates failed")
    /\ Saves
    /\ ItemDone("failed")
    /\ UNCHANGED <<world, torn, candFile, args, processed_set, to_process, candidates_data,
                   collected, ledger0, itemVars, callVars, last_exit>>

\* main, lines 611-613: the loop is over
FinishSingle ==
    /\ pc = "single"
    /\ i = Len(to_process)
    /\ ProcessEnds("finished")
    /\ UNCHANGED files

(***************************************************************************)
(* Phase A, --search-only: main, lines 482-527, and collect_candidates.    *)
(***************************************************************************)
\* main, lines 483-486
SearchOnlyAllProcessed ==
    /\ pc = "idle"
    /\ ~torn
    /\ Remaining(songs, Range(disk.processed)) = <<>>
    /\ ProcessEnds("all_processed")
    /\ UNCHANGED files

\* main, lines 495-498
SearchOnlyNoToken ==
    /\ pc = "idle"
    /\ ~torn
    /\ Remaining(songs, Range(disk.processed)) # <<>>
    /\ \E token \in Tokens : token = None
    /\ ProcessEnds("no_token")
    /\ UNCHANGED files

\* main, lines 474-480 and 488-502
StartSearchOnly(count, top) ==
    /\ pc = "idle"
    /\ ~torn
    /\ Remaining(songs, Range(disk.processed)) # <<>>
    /\ \E token \in Tokens : token # None
    /\ LoadsProgress
    /\ args' = [NoArgs EXCEPT !.mode = "search_only", !.count = count, !.top = top]
    /\ to_process' = Prefix(Remaining(songs, Range(disk.processed)), count)
    /\ collected' = <<>>
    /\ i' = 0
    /\ handled' = <<>>
    /\ pc' = "collect"
    /\ last_exit' = "running"
    /\ UNCHANGED <<files, candidates_data, itemVars, callVars>>

\* collect_candidates, lines 178-180
BeginCollect ==
    /\ pc = "collect"
    /\ i < Len(to_process)
    /\ queries' = get_search_queries(cur.title, cur.artist)
    /\ qi' = 1
    /\ all_results' = <<>>
    /\ used_query' = <<>>
    /\ matching_results' = <<>>
    /\ ci' = 0
    /\ searched' = <<>>
    /\ imported' = <<>>
    /\ pc' = IF get_search_queries(cur.title, cur.artist) = <<>> THEN "cfilter"
             ELSE "csearch"
    /\ UNCHANGED <<files, runVars, i, handled, last_exit>>

\* collect_candidates, lines 182-190: one search_songs call
CollectQuery ==
    /\ pc = "csearch"
    /\ \E results \in Answers(queries[qi]) :
        /\ searched' = Append(searched, [query |-> queries[qi], n |-> Len(results)])
        /\ all_results' = IF results # <<>> THEN AddResults(all_results, results, 0)
                          ELSE all_results
        /\ used_query' = IF results # <<>> THEN queries[qi] ELSE used_query
        /\ IF results # <<>> \/ qi = Len(queries)
           THEN pc' = "cfilter" /\ qi' = qi
           ELSE pc' = "csearch" /\ qi' = qi + 1
    /\ UNCHANGED <<files, runVars, i, queries, matching_results, ci, imported, handled,
                   last_exit>>

\* collect_candidates, lines 214-222: a candidate of the batch
Candidate(result, query) ==
    [id |-> result.id, title |-> result.title, artist |-> result.artist,
     popularityScore |-> IF "popularityScore" \in DOMAIN result
                         THEN result.popularityScore ELSE JsonNum(0),
     matchedQuery |-> query]

\* (variant) the first top_n matching results in the order of the response
CandidatesUnranked(title, all, query, top_n) ==
    LET trimmed == Prefix(MatchingResults(title, all), top_n)
    IN  [k \in 1..Len(trimmed) |-> Candidate(trimmed[k].r, query)]

\* collect_candidates, lines 192-224: the candidates that are returned
Candidates(title, all, query, top_n) ==
    LET trimmed == Prefix(SortResults(MatchingResults(title, all)), top_n)
    IN  [k \in 1..Len(trimmed) |-> Candidate(trimmed[k].r, query)]

\* main, lines 506-513: the entry of the batch
BatchEntry(item, candidates, query) ==
    [title |-> item.title, artist |-> item.artist, original_line |-> item.line,
     candidates |-> candidates, selectedId |-> None, matchedQuery |-> query]

\* (variant) a search-only run that records an item without candidates as
\* skipped, as process_song does
CollectCandidatesRecordsSkip ==
    /\ pc = "cfilter"
    /\ matching_results' = SortResults(MatchingResults(cur.title, all_results))
    /\ collected' = Append(collected,
                           BatchEntry(cur, Candidates(cur.title, all_results, used_query,
                                                      args.top), used_query))
    /\ handled' = Append(handled, [line |-> cur.line, outcome |-> "collected"])
    /\ progress' = IF MatchingResults(cur.title, all_results) = <<>>
                   THEN RecordSkipped(progress, cur.title, cur.artist, cur.line,
                                      "No results found")
                   ELSE progress
    /\ Saves
    /\ i' = i + 1
    /\ pc' = "collect"
    /\ UNCHANGED <<world, torn, candFile, args, processed_set, to_process, candidates_data,
                   ledger0, queries, qi, all_results, used_query, ci, callVars,
                   last_exit>>

\* collect_candidates, lines 192-224, and main, lines 505-519
CollectCandidates ==
    /\ pc = "cfilter"
    /\ matching_results' = SortResults(MatchingResults(cur.title, all_results))
    /\ collected' = Append(collected,
                           BatchEntry(cur, Candidates(cur.title, all_results, used_query,
                                                      args.top), used_query))
    /\ handled' = Append(handled, [line |-> cur.line, outcome |-> "collected"])
    /\ i' = i + 1
    /\ pc' = "collect"
    /\ UNCHANGED <<files, args, progress, processed_set, to_process, candidates_data,
                   ledger0, queries, qi, all_results, used_query, ci, callVars,
                   last_exit>>

\* main, lines 521-527: the batch is written
WriteCandidates ==
    /\ pc = "collect"
    /\ i = Len(to_process)
    /\ candFile' = [readable |-> TRUE, data |-> collected]
    /\ written_top' = args.top
    /\ ProcessEnds("finished")
    /\ UNCHANGED <<songs, remote, kept, disk, torn>>

(***************************************************************************)
(* Phase B, --download-from: main, lines 529-582, and                      *)
(* process_selected_song.                                                  *)
(***************************************************************************)
\* main, lines 530-535
DownloadUnreadable ==
    /\ pc = "idle"
    /\ ~torn
    /\ ~candFile.readable
    /\ ProcessEnds("unreadable")
    /\ UNCHANGED files

\* (variant) a run that notices the missing token after the ledger was
\* written afresh
DownloadNoTokenWrites ==
    /\ pc = "idle"
    /\ ~torn
    /\ candFile.readable
    /\ \E token \in Tokens : token = None
    /\ disk' = EmptyProgress
    /\ ProcessEnds("no_token")
    /\ UNCHANGED <<world, torn, candFile>>

\* main, lines 541-544
DownloadNoToken ==
    /\ pc = "idle"
    /\ ~torn
    /\ candFile.readable
    /\ \E token \in Tokens : token = None
    /\ ProcessEnds("no_token")
    /\ UNCHANGED files

\* main, lines 474-480 and 529-548
StartDownload(mark_unselected_skipped) ==
    /\ pc = "idle"
    /\ ~torn
    /\ candFile.readable
    /\ \E token \in Tokens : token # None
    /\ LoadsProgress
    /\ args' = [NoArgs EXCEPT !.mode = "download_from",
                              !.mark_unselected_skipped = mark_unselected_skipped]
    /\ candidates_data' = candFile.data
    /\ i' = 0
    /\ handled' = <<>>
    /\ pc' = "download"
    /\ last_exit' = "running"
    /\ UNCHANGED <<files, to_process, collected, itemVars, callVars>>

\* the current entry of the for loop of --download-from
entry == candidates_data[i + 1]

\* main, line 552
EntryLine(e) ==
    IF "original_line" \in DOMAIN e /\ e.original_line # <<>> THEN e.original_line
    ELSE IF "originalLine" \in DOMAIN e /\ e.originalLine # <<>> THEN e.originalLine
    ELSE DefaultLine(e.title, e.artist)

\* main, line 559: not selected_id
Unselected(e) == e.selectedId = None \/ e.selectedId = ""

\* an entry is done: the loop of --download-from goes on
EntryDone(outcome) ==
    /\ handled' = Append(handled, [line |-> EntryLine(entry), outcome |-> outcome])
    /\ i' = i + 1
    /\ pc' = "download"

\* main, lines 555-557
SkipProcessed ==
    /\ pc = "download"
    /\ i < Len(candidates_data)
    /\ EntryLine(entry) \in processed_set
    /\ EntryDone("already_processed")
    /\ searched' = <<>>
    /\ imported' = <<>>
    /\ UNCHANGED <<files, runVars, itemVars, last_exit>>

\* main, lines 559-567 and 570
MarkUnselected ==
    /\ pc = "download"
    /\ i < Len(candidates_data)
    /\ EntryLine(entry) \notin processed_set
    /\ Unselected(entry)
    /\ args.mark_unselected_skipped
    /\ progress' = RecordUnselected(progress, entry.title, entry.artist, EntryLine(entry))
    /\ processed_set' = processed_set \cup {EntryLine(entry)}
    /\ Saves
    /\ EntryDone("skipped")
    /\ searched' = <<>>
    /\ imported' = <<>>
    /\ UNCHANGED <<world, torn, candFile, args, to_process, candidates_data, collected,
                   ledger0, itemVars, last_exit>>

\* (variant) an unselected entry marked processed without the opt-in
LeaveUnselectedMarks ==
    /\ pc = "download"
    /\ i < Len(candidates_data)
    /\ EntryLine(entry) \notin processed_set
    /\ Unselected(entry)
    /\ ~args.mark_unselected_skipped
    /\ progress' = [progress EXCEPT !.processed = Append(@, EntryLine(entry))]
    /\ Saves
    /\ EntryDone("unselected")
    /\ searched' = <<>>
    /\ imported' = <<>>
    /\ UNCHANGED <<world, torn, candFile, args, processed_set, to_process, candidates_data,
                   collected, ledger0, itemVars, last_exit>>

\* main, lines 559, 568-570
LeaveUnselected ==
    /\ pc = "download"
    /\ i < Len(candidates_data)
    /\ EntryLine(entry) \notin processed_set
    /\ Unselected(entry)
    /\ ~args.mark_unselected_skipped
    /\ EntryDone("unselected")
    /\ searched' = <<>>
    /\ imported' = <<>>
    /\ UNCHANGED <<files, runVars, itemVars, last_exit>>

\* main, line 572, and process_selected_song, lines 396-400: one add_song
\* call, until it has returned
ProcessSelected ==
    /\ pc = "download"
    /\ i < Len(candidates_data)
    /\ EntryLine(entry) \notin processed_set
    /\ ~Unselected(entry)
    /\ \E ok \in Outcomes(entry.selectedId) :
           imported' = <<[id |-> entry.selectedId, ok |-> ok]>>
    /\ searched' = <<>>
    /\ pc' = "selected"
    /\ UNCHANGED <<files, runVars, i, itemVars, handled, last_exit>>

\* process_selected_song, lines 401-414: the answer of add_song is recorded
RecordSelected ==
    /\ pc = "selected"
    /\ progress' = IF imported[1].ok
                   THEN RecordAdded(progress, entry.title, entry.artist,
                                    EntryLine(entry), imported[1].id)
                   ELSE RecordFailed(progress, entry.title, entry.artist,
                                     EntryLine(entry), FailedWithId[imported[1].id])
    /\ EntryDone(IF imported[1].ok THEN "added" ELSE "failed")
    /\ Saves
    /\ UNCHANGED <<world, torn, candFile, args, processed_set, to_process, candidates_data,
                   collected, ledger0, itemVars, callVars, last_exit>>

\* main, lines 576-582: the loop is over
FinishDownload ==
    /\ pc = "download"
    /\ i = Len(candidates_data)
    /\ ProcessEnds("finished")
    /\ UNCHANGED files

(***************************************************************************)
(* The environment of the script.                                          *)
(***************************************************************************)
\* the ids of the candidates of an entry of the batch
CandidateIds(e) == {e.candidates[k].id : k \in 1..Len(e.candidates)}

\* the reviewer sets selectedId of an entry of the candidates file to one of
\* its candidates, or clears it
EditSelected(e, id) ==
    /\ pc = "idle"
    /\ candFile.readable
    /\ e \in 1..Len(candFile.data)
    /\ id \in CandidateIds(candFile.data[e]) \cup {None}
    /\ candFile.data[e].selectedId # id
    /\ candFile' = [candFile EXCEPT !.data[e].selectedId = id]
    /\ UNCHANGED <<world, disk, torn, pc, args, progress, processed_set, to_process,
                   candidates_data, collected, i, itemVars, callVars, handled, ledger0,
                   last_exit>>

\* main, lines 462-464, and reset_progress: the file is removed
ResetProgress ==
    /\ pc = "idle"
    /\ disk # EmptyProgress \/ torn
    /\ disk' = EmptyProgress
    /\ torn' = FALSE
    /\ ProcessEnds("reset")
    /\ UNCHANGED <<world, candFile>>

\* the process is killed between two steps
Interrupt ==
    /\ pc # "idle"
    /\ ProcessEnds("interrupted")
    /\ UNCHANGED files

\* the next step of the process calls save_progress: process_song, lines
\* 332, 349, 382 and 392; main, line 567; process_selected_song, lines 406
\* and 413
AboutToSave ==
    \/ /\ pc = "filter"
       /\ MatchingResults(cur.title, all_results) = <<>>
    \/ /\ pc = "import"
       /\ ci > Len(matching_results)
    \/ /\ pc = "imported"
       /\ imported[Len(imported)].ok
    \/ /\ pc = "download"
       /\ i < Len(candidates_data)
       /\ EntryLine(entry) \notin processed_set
       /\ Unselected(entry)
       /\ args.mark_unselected_skipped
    \/ pc = "selected"

\* the process is killed inside save_progress, lines 237-238: open(.., 'w')
\* has emptied the file and json.dump has not written the whole document
KilledInSave ==
    /\ AboutToSave
    /\ torn' = TRUE
    /\ disk' = EmptyProgress
    /\ ProcessEnds("interrupted")
    /\ UNCHANGED <<world, candFile>>

\* the process is killed while it writes the candidates file, main, lines
\* 521-522: what is left of the file is not a JSON document
KilledInWrite ==
    /\ pc = "collect"
    /\ i = Len(to_process)
    /\ candFile' = [readable |-> FALSE, data |-> <<>>]
    /\ ProcessEnds("interrupted")
    /\ UNCHANGED <<world, disk, torn>>

Next ==
    \/ SingleAllProcessed
    \/ SingleNoToken
    \/ \E count \in Counts, dry_run \in BOOLEAN : StartSingle(count, dry_run)
    \/ BeginSong
    \/ SearchQuery
    \/ NoResults
    \/ NoTitleMatch
    \/ RankCandidates
    \/ DryRunReport
    \/ ImportCandidate
    \/ RecordImport
    \/ AllFailed
    \/ FinishSingle
    \/ SearchOnlyAllProcessed
    \/ SearchOnlyNoToken
    \/ \E count \in BatchCounts, top \in Tops : StartSearchOnly(count, top)
    \/ BeginCollect
    \/ CollectQuery
    \/ CollectCandidates
    \/ WriteCandidates
    \/ DownloadUnreadable
    \/ DownloadNoToken
    \/ \E mark \in BOOLEAN : StartDownload(mark)
    \/ SkipProcessed
    \/ MarkUnselected
    \/ LeaveUnselected
    \/ ProcessSelected
    \/ RecordSelected
    \/ FinishDownload
    \/ \E e \in 1..MaxBatch, id \in Ids \cup {None} : EditSelected(e, id)
    \/ ResetProgress
    \/ Interrupt
    \/ KilledInSave
    \/ KilledInWrite
    \/ LoadCrashes

Spec == Init /\ [][Next]_vars

(***************************************************************************)
(* The job on a candidates file that was written by hand: single-phase     *)
(* and --download-from runs over batches of up to MaxSongs entries.        *)
(***************************************************************************)
\* an entry as --search-only writes it when no query returns anything, with
\* the selectedId the reviewer typed
HandEntry(item, selectedId) ==
    [BatchEntry(item, <<>>, <<>>) EXCEPT !.selectedId = selectedId]

\* the selectedId values of hand-written entries
HandIds == {None, "A"}

\* the hand-written batches for a source list: 1..MaxSongs entries, each for
\* an item of the list
HandBatches(list) ==
    UNION {[1..n -> {HandEntry(item, id) : item \in Range(list), id \in HandIds}] :
           n \in 1..MaxSongs}

InitJob ==
    /\ songs \in SongLists
    /\ remote = AnyRemote
    /\ kept = <<>>
    /\ written_top = 0
    /\ disk = EmptyProgress
    /\ torn = FALSE
    /\ candFile \in {[readable |-> TRUE, data |-> b] : b \in HandBatches(songs)}
    /\ pc = "idle"
    /\ args = NoArgs
    /\ progress = EmptyProgress
    /\ processed_set = {}
    /\ to_process = <<>>
    /\ candidates_data = <<>>
    /\ collected = <<>>
    /\ i = 0
    /\ queries = <<>>
    /\ qi = 0
    /\ all_results = <<>>
    /\ used_query = <<>>
    /\ matching_results = <<>>
    /\ ci = 0
    /\ searched = <<>>
    /\ imported = <<>>
    /\ handled = <<>>
    /\ ledger0 = EmptyProgress
    /\ last_exit = "none"

NextJob ==
    \/ SingleAllProcessed
    \/ SingleNoToken
    \/ \E count \in Counts, dry_run \in BOOLEAN : StartSingle(count, dry_run)
    \/ BeginSong
    \/ SearchQuery
    \/ NoResults
    \/ NoTitleMatch
    \/ RankCandidates
    \/ DryRunReport
    \/ ImportCandidate
    \/ RecordImport
    \/ AllFailed
    \/ FinishSingle
    \/ DownloadNoToken
    \/ \E mark \in BOOLEAN : StartDownload(mark)
    \/ SkipProcessed
    \/ MarkUnselected
    \/ LeaveUnselected
    \/ ProcessSelected
    \/ RecordSelected
    \/ FinishDownload
    \/ ResetProgress
    \/ Interrupt
    \/ KilledInSave
    \/ LoadCrashes

SpecJob == InitJob /\ [][NextJob]_vars

(***************************************************************************)
(* The two routes side by side: a remote service that answers as a         *)
(* function of its input, a single-phase run from the empty ledger, whose  *)
(* ledger the operator puts aside before a reset, and then the two-phase   *)
(* route (--search-only, selectedId set to the first candidate,            *)
(* --download-from) from the empty ledger again.                           *)
(***************************************************************************)
\* the ids whose import may succeed at a fixed remote
OkIds == {"A", "B", "C"}

\* the fixed remotes that are explored
Remotes == {[fixed |-> TRUE, first |-> f, rest |-> r, ok |-> o] :
                f \in ResultPages, r \in ResultPages, o \in SUBSET OkIds}

InitTrip ==
    /\ songs \in SongLists
    /\ remote \in Remotes
    /\ kept = <<>>
    /\ written_top = 0
    /\ disk = EmptyProgress
    /\ torn = FALSE
    /\ candFile = [readable |-> FALSE, data |-> <<>>]
    /\ pc = "idle"
    /\ args = NoArgs
    /\ progress = EmptyProgress
    /\ processed_set = {}
    /\ to_process = <<>>
    /\ candidates_data = <<>>
    /\ collected = <<>>
    /\ i = 0
    /\ queries = <<>>
    /\ qi = 0
    /\ all_results = <<>>
    /\ used_query = <<>>
    /\ matching_results = <<>>
    /\ ci = 0
    /\ searched = <<>>
    /\ imported = <<>>
    /\ handled = <<>>
    /\ ledger0 = EmptyProgress
    /\ last_exit = "none"

\* the operator copies the progress file aside and resets it (main, --reset)
KeepAndReset ==
    /\ pc = "idle"
    /\ kept = <<>>
    /\ disk # EmptyProgress
    /\ kept' = <<disk>>
    /\ disk' = EmptyProgress
    /\ ProcessEnds("reset")
    /\ UNCHANGED <<songs, remote, written_top, torn, candFile>>

\* the reviewer sets selectedId of an entry to its first candidate
SelectTop(e) ==
    /\ e \in 1..Len(candFile.data)
    /\ candFile.data[e].candidates # <<>>
    /\ EditSelected(e, candFile.data[e].candidates[1].id)

NextTrip ==
    \/ \E count \in Counts : kept = <<>> /\ StartSingle(count, FALSE)
    \/ BeginSong
    \/ SearchQuery
    \/ NoResults
    \/ NoTitleMatch
    \/ RankCandidates
    \/ ImportCandidate
    \/ RecordImport
    \/ AllFailed
    \/ FinishSingle
    \/ KeepAndReset
    \/ \E count \in BatchCounts, top \in Tops : StartSearchOnly(count, top)
    \/ BeginCollect
    \/ CollectQuery
    \/ CollectCandidates
    \/ WriteCandidates
    \/ \E e \in 1..MaxBatch : SelectTop(e)
    \/ kept # <<>> /\ StartDownload(FALSE)
    \/ SkipProcessed
    \/ LeaveUnselected
    \/ ProcessSelected
    \/ RecordSelected
    \/ FinishDownload

SpecTrip == InitTrip /\ [][NextTrip]_vars

(***************************************************************************)
(* Single-phase runs (no --dry-run) that are left to run: no process is    *)
(* killed, and every call of a run returns, so a run that can take a step  *)
(* takes it.                                                               *)
(***************************************************************************)
\* main, lines 606-609: the loop may start the next item. BeginSong has no
\* other condition and always changes pc, so this is ENABLED <<BeginSong>>_vars
CanBegin == pc = "single" /\ i < Len(to_process)

\* the steps of process_song after its first, and the end of the loop of main
RunRest ==
    \/ SearchQuery
    \/ NoResults
    \/ NoTitleMatch
    \/ RankCandidates
    \/ ImportCandidate
    \/ RecordImport
    \/ AllFailed
    \/ FinishSingle

\* a step of process_song or of the loop of main
RunStep == BeginSong \/ RunRest

NextRun ==
    \/ SingleAllProcessed
    \/ SingleNoToken
    \/ \E count \in Counts : StartSingle(count, FALSE)
    \/ RunStep

\* weak fairness of the steps of a run; that of BeginSong is written with its
\* guard: WF_vars(BeginSong) is []<>~ENABLED <<BeginSong>>_vars \/ []<><<BeginSong>>_vars
RunFairness ==
    /\ WF_vars(RunRest)
    /\ ([]<>(~CanBegin) \/ []<><<BeginSong>>_vars)

SpecRun == Init /\ [][NextRun]_vars /\ RunFairness

(***************************************************************************)
(* Runs against a remote service whose page for the title of the item is   *)
(* any page of up to MaxPage results: a search-only run and a single-phase *)
(* run see the same answers, and the ranking is fed every combination of   *)
(* popularity values and title matches.                                    *)
(***************************************************************************)
MaxPage == 3

\* the ids of the results of a page, by position
RankIds == <<"A", "B", "C">>

\* popularityScore of a result: absent, null, or a number
Scores == {[has |-> FALSE, v |-> JsonNull], [has |-> TRUE, v |-> JsonNull],
           [has |-> TRUE, v |-> JsonNum(0)], [has |-> TRUE, v |-> JsonNum(10)],
           [has |-> TRUE, v |-> JsonNum(20)], [has |-> TRUE, v |-> JsonNum(-5)]}

\* a result of the search response: a title that matches Blue or one that
\* does not, with or without a popularityScore
RankResult(id, title, score) ==
    IF score.has
    THEN [id |-> id, title |-> title, artist |-> <<"X">>, popularityScore |-> score.v]
    ELSE [id |-> id, title |-> title, artist |-> <<"X">>]

RankPages ==
    UNION {{[k \in 1..n |-> RankResult(RankIds[k], t[k], s[k])] :
                t \in [1..n -> {Blue, ResultD.title}], s \in [1..n -> Scores]} :
           n \in 0..MaxPage}

InitRank ==
    /\ songs = <<Song(Blue, <<"X">>)>>
    /\ \E page \in RankPages :
           remote = [fixed |-> TRUE, first |-> page, rest |-> <<>>, ok |-> {}]
    /\ kept = <<>>
    /\ written_top = 0
    /\ disk = EmptyProgress
    /\ torn = FALSE
    /\ candFile = [readable |-> FALSE, data |-> <<>>]
    /\ pc = "idle"
    /\ args = NoArgs
    /\ progress = EmptyProgress
    /\ processed_set = {}
    /\ to_process = <<>>
    /\ candidates_data = <<>>
    /\ collected = <<>>
    /\ i = 0
    /\ queries = <<>>
    /\ qi = 0
    /\ all_results = <<>>
    /\ used_query = <<>>
    /\ matching_results = <<>>
    /\ ci = 0
    /\ searched = <<>>
    /\ imported = <<>>
    /\ handled = <<>>
    /\ ledger0 = EmptyProgress
    /\ last_exit = "none"

NextRank ==
    \/ \E top \in Tops : StartSearchOnly(1, top)
    \/ BeginCollect
    \/ CollectQuery
    \/ CollectCandidates
    \/ WriteCandidates
    \/ StartSingle(1, FALSE)
    \/ BeginSong
    \/ SearchQuery
    \/ NoResults
    \/ NoTitleMatch
    \/ RankCandidates
    \/ ImportCandidate
    \/ RecordImport
    \/ AllFailed
    \/ FinishSingle

SpecRank == InitRank /\ [][NextRank]_vars

(***************************************************************************)
(* Single-phase runs over one requested item whose title and artist are    *)
(* put together from up to MaxPieces pieces (words, blanks, punctuation,   *)
(* parentheticals, "/", "ft." and "x"), against a remote service that      *)
(* finds nothing, so that every query of the item is sent.                 *)
(***************************************************************************)
MaxPieces == 3

TitlePieces == {Blue, <<"G", "o">>, <<" ">>, <<"(", "a", ")">>, <<"!">>, <<"!", " ">>}

ArtistPieces == {<<"Z">>, <<"/">>, <<" ">>, <<"!">>, <<"f", "t", ".", " ">>,
                 <<"x", " ">>, <<" ", "x", " ">>}

RECURSIVE Flatten(_)
Flatten(pieces) ==
    IF pieces = <<>> THEN <<>> ELSE Head(pieces) \o Flatten(Tail(pieces))

\* the texts extract_song_info can return: not empty, and stripped
Texts(pieces) ==
    {s \in UNION {{Flatten(f) : f \in [1..n -> pieces]} : n \in 1..MaxPieces} :
        s # <<>> /\ Strip(s) = s}

QueryTitles == Texts(TitlePieces)

QueryArtists == Texts(ArtistPieces)

\* a remote service that finds nothing and imports nothing
EmptyRemote == [fixed |-> TRUE, first |-> <<>>, rest |-> <<>>, ok |-> {}]

InitQueries ==
    /\ \E title \in QueryTitles, artist \in QueryArtists :
           songs = <<Song(title, artist)>>
    /\ remote = EmptyRemote
    /\ kept = <<>>
    /\ written_top = 0
    /\ disk = EmptyProgress
    /\ torn = FALSE
    /\ candFile = [readable |-> FALSE, data |-> <<>>]
    /\ pc = "idle"
    /\ args = NoArgs
    /\ progress = EmptyProgress
    /\ processed_set = {}
    /\ to_process = <<>>
    /\ candidates_data = <<>>
    /\ collected = <<>>
    /\ i = 0
    /\ queries = <<>>
    /\ qi = 0
    /\ all_results = <<>>
    /\ used_query = <<>>
    /\ matching_results = <<>>
    /\ ci = 0
    /\ searched = <<>>
    /\ imported = <<>>
    /\ handled = <<>>
    /\ ledger0 = EmptyProgress
    /\ last_exit = "none"

NextQueries ==
    \/ StartSingle(1, FALSE)
    \/ BeginSong
    \/ SearchQuery
    \/ NoResults
    \/ FinishSingle

SpecQueries == InitQueries /\ [][NextQueries]_vars

(***************************************************************************)
(* Properties.                                                             *)
(***************************************************************************)
Last(s) == s[Len(s)]

\* the records of a list of the ledger that belong to an item
RecordsOf(list, item) ==
    {k \in 1..Len(list) : list[k].title = item.title /\ list[k].artist = item.artist}

\* the lists of the ledger that hold a terminal record of an item
ListsWith(p, item) ==
    {kind \in {"added", "failed", "skipped"} : RecordsOf(p[kind], item) # {}}

\* a single-phase run that imports (dryRun false) is under way
SingleRun == pc # "idle" /\ args.mode = "single" /\ ~args.dry_run

\* the item process_song finished last, between two items of a run
done == to_process[i]

\* every element of s but the last is an element of t
OnlyLastIsNew(s, t) == \A k \in 1..(Len(s) - 1) : s[k] \in Range(t)

\* no line of the source list is repeated
DistinctLines == \A j, k \in 1..Len(songs) : songs[j].line = songs[k].line => j = k

\* C1: Ledger invariant. In the persisted ledger an originalKey is in
\* processed if and only if exactly one of added / failed / skipped holds a
\* terminal record of that item. It is stated for the source lists without a
\* repeated line, where every originalKey names one request.
C1_LedgerInvariant ==
    DistinctLines =>
        \A item \in Range(songs) :
            (item.line \in Range(disk.processed)) <=> (Cardinality(ListsWith(disk, item)) = 1)

\* C2: Resume idempotence. An item whose originalKey is in processed when a
\* run loads the ledger is not selected for the run, no step of the run
\* handles it (so no search call, no import call and no record is made for
\* it), and nothing is appended to processed for it; a single-phase run that
\* finds every item of the source list processed does not get under way.
C2_ResumeIdempotent ==
    LET processed0 == Range(ledger0.processed)
    IN  pc # "idle" =>
            /\ \A k \in 1..Len(to_process) : to_process[k].line \notin processed0
            /\ pc \in {"search", "filter", "import", "imported", "csearch", "cfilter"}
                   => cur.line \notin processed0
            /\ \A k \in 1..Len(handled) :
                   handled[k].line \in processed0 => handled[k].outcome = "already_processed"
            /\ Len(disk.processed) >= Len(ledger0.processed)
            /\ \A k \in 1..Len(disk.processed) :
                   IF k <= Len(ledger0.processed)
                   THEN disk.processed[k] = ledger0.processed[k]
                   ELSE disk.processed[k] \notin processed0
            /\ args.mode \in {"single", "search_only"}
                   => \E item \in Range(songs) : item.line \notin processed0

\* C2, the case: a run that skipped the first item of the list, which was
\* processed before, has called the import collaborator for the second
C2_Witness ==
    /\ SingleRun
    /\ Len(songs) = 2
    /\ songs[1].line \in Range(ledger0.processed)
    /\ pc = "import"
    /\ cur = songs[2]
    /\ imported # <<>>

\* the items after the first n of the source list whose line is not among
\* the lines of the first n
AfterFirst(n) ==
    SelectSeq(SubSeq(songs, n + 1, Len(songs)),
              LAMBDA item : \A k \in 1..n : songs[k].line # item.line)

\* C3, between two items: in a single-phase run (dryRun false) from an empty
\* ledger, with N items done the persisted ledger is the ledger in memory and
\* its processed entries are the lines of the first N items, in order; the
\* items that remain for a run that follows are the items after item N whose
\* line does not repeat one of the first N.
C3_BetweenItems ==
    (SingleRun /\ ledger0 = EmptyProgress) =>
        /\ ~torn
        /\ Len(disk.processed) = i
        /\ disk = progress
        /\ \A k \in 1..i : disk.processed[k] = songs[k].line
        /\ Remaining(songs, Range(disk.processed)) = AfterFirst(i)
        /\ (i < Len(songs) /\ \A k \in 1..i : songs[k].line # songs[i + 1].line)
               => Head(Remaining(songs, Range(disk.processed))) = songs[i + 1]

\* the step is the end of a single-phase run (dryRun false) from an empty
\* ledger, over a list without a repeated line, whose process is killed
KilledSingleRun ==
    /\ SingleRun
    /\ ledger0 = EmptyProgress
    /\ DistinctLines
    /\ pc' = "idle"
    /\ last_exit' = "interrupted"

\* C3: Crash resumption. When the process of a single-phase run (dryRun
\* false) from an empty ledger is killed after N items, the progress file
\* holds a ledger that retains the outcomes of these N items (its processed
\* entries are their lines, in order, and at most the entry of the item in
\* flight besides), and the items that remain for the next run start with
\* item N+1, or with item N+2 when the outcome of item N+1 was persisted.
C3_CrashResumption ==
    [][ KilledSingleRun =>
            /\ ~torn'
            /\ Len(disk'.processed) \in {i, i + 1}
            /\ \A k \in 1..Len(disk'.processed) : disk'.processed[k] = songs[k].line
            /\ Remaining(songs, Range(disk'.processed)) =
                   SubSeq(songs, Len(disk'.processed) + 1, Len(songs))
      ]_vars

\* C4: Candidate cascade. The imports of an item are the candidates in
\* ranked order, from the first one on, each once; every import but the last
\* failed; when the last succeeds the item is done with an added record that
\* carries that id, its line is marked processed and persisted, and no
\* candidate after it is imported.
C4_CandidateCascade ==
    (SingleRun /\ pc \in {"import", "imported", "single"} /\ imported # <<>>) =>
        LET n == Len(imported)
        IN  /\ n <= Len(matching_results)
            /\ \A k \in 1..n : imported[k].id = matching_results[k].r.id
            /\ \A j, k \in 1..n : j # k => imported[j].id # imported[k].id
            /\ \A k \in 1..(n - 1) : ~imported[k].ok
            /\ \A j, k \in 1..Len(matching_results) :
                   j < k => \/ Popularity(matching_results[j].r) > Popularity(matching_results[k].r)
                            \/ /\ Popularity(matching_results[j].r) = Popularity(matching_results[k].r)
                               /\ matching_results[j].idx < matching_results[k].idx
            /\ pc = "import" => ~imported[n].ok /\ ci = n + 1
            /\ pc = "imported" => ci = n /\ disk = progress
            /\ pc = "single" =>
                   IF imported[n].ok
                   THEN /\ Last(handled) = [line |-> done.line, outcome |-> "added"]
                        /\ Last(disk.added) = AddedRecord(done.title, done.artist, imported[n].id)
                        /\ Last(disk.processed) = done.line
                   ELSE /\ Last(handled) = [line |-> done.line, outcome |-> "failed"]
                        /\ n = Len(matching_results)

\* C4, the case: the first candidate failed and the second one was added
C4_Witness ==
    /\ SingleRun
    /\ pc = "single"
    /\ Len(imported) = 2
    /\ ~imported[1].ok
    /\ imported[2].ok
    /\ Len(matching_results) = 3

\* every candidate of the current item was imported, and every import failed
Exhausted ==
    /\ SingleRun
    /\ pc = "import"
    /\ Len(imported) = Len(matching_results)
    /\ \A k \in 1..Len(imported) : ~imported[k].ok

\* C5: Exhaustion. When the import of every candidate of an item has failed,
\* each candidate was imported exactly once, and the step of the run that
\* follows writes exactly one failed record with reason "All candidates
\* failed", writes no added and no skipped record, marks the item processed
\* and persists the ledger, without a further import.
C5_Exhaustion ==
    [][ (Exhausted /\ pc' # "idle") =>
            /\ \A k \in 1..Len(matching_results) : imported[k].id = matching_results[k].r.id
            /\ progress'.failed = Append(progress.failed,
                                         ReasonRecord(cur.title, cur.artist,
                                                      "All candidates failed"))
            /\ progress'.added = progress.added
            /\ progress'.skipped = progress.skipped
            /\ progress'.processed = Append(progress.processed, cur.line)
            /\ disk' = progress'
            /\ imported' = imported
            /\ pc' = "single"
            /\ i' = i + 1 ]_vars

\* C5, the case: an item with three candidates ended as failed
C5_Witness ==
    /\ SingleRun
    /\ pc = "single"
    /\ i >= 1
    /\ Len(imported) = 3
    /\ \A k \in 1..3 : ~imported[k].ok
    /\ Last(disk.failed) = ReasonRecord(done.title, done.artist, "All candidates failed")

\* the resolution of the current item of a single-phase run is over and has
\* yielded no candidate
NoCandidates ==
    /\ pc = "filter"
    /\ MatchingResults(cur.title, all_results) = <<>>

\* every generated query was sent and returned an empty result set
AllQueriesEmpty ==
    /\ Len(searched) = Len(queries)
    /\ \A k \in 1..Len(searched) : searched[k].query = queries[k] /\ searched[k].n = 0

\* C6: Empty resolution. When an item of a single-phase run yields no
\* candidates, the step of the run that follows appends exactly one skipped
\* record, appends the item's line to processed, leaves added and failed
\* alone, persists the ledger and calls no import; the reason is "No results
\* found" if every generated query returned nothing and "No title match" if
\* some query returned results.
C6_EmptyResolution ==
    [][ (NoCandidates /\ pc' # "idle") =>
            /\ progress'.skipped =
                   Append(progress.skipped,
                          ReasonRecord(cur.title, cur.artist,
                                       IF AllQueriesEmpty THEN "No results found"
                                       ELSE "No title match"))
            /\ ~AllQueriesEmpty => \E k \in 1..Len(searched) : searched[k].n > 0
            /\ progress'.processed = Append(progress.processed, cur.line)
            /\ progress'.added = progress.added
            /\ progress'.failed = progress.failed
            /\ disk' = progress'
            /\ imported = <<>>
            /\ imported' = <<>>
            /\ pc' = "single"
            /\ i' = i + 1 ]_vars

\* C6, the case: an item was skipped with "No title match" after a query
\* returned results, none of which matched
C6_Witness ==
    /\ pc = "single"
    /\ args.mode = "single"
    /\ i >= 1
    /\ searched # <<>>
    /\ Last(searched).n > 0
    /\ imported = <<>>
    /\ disk.skipped # <<>>
    /\ Last(disk.skipped) = ReasonRecord(done.title, done.artist, "No title match")

\* the step ends the handling of an item or entry with the given outcome
Ends(outcomes) ==
    /\ pc # "idle"
    /\ pc' # "idle"
    /\ Len(handled') = Len(handled) + 1
    /\ Last(handled').outcome \in outcomes

\* the step appends exactly one record, for the given title and artist, to
\* failed or to skipped, and no record to any other list
OneDiscardRecord(title, artist) ==
    \/ /\ Len(progress'.failed) = Len(progress.failed) + 1
       /\ SubSeq(progress'.failed, 1, Len(progress.failed)) = progress.failed
       /\ Last(progress'.failed).title = title
       /\ Last(progress'.failed).artist = artist
       /\ progress'.skipped = progress.skipped
       /\ progress'.added = progress.added
    \/ /\ progress'.skipped # <<>>
       /\ Last(progress'.skipped).title = title
       /\ Last(progress'.skipped).artist = artist
       /\ (\/ Last(progress'.skipped) \notin Range(progress.skipped)
           \/ Len(progress'.skipped) = Len(progress.skipped) + 1)
       /\ OnlyLastIsNew(progress'.skipped, progress.skipped)
       /\ progress'.failed = progress.failed
       /\ progress'.added = progress.added

\* the title and the artist of the item or entry a step of a run handles
HandledTitle == IF args.mode = "download_from" THEN entry.title ELSE cur.title

HandledArtist == IF args.mode = "download_from" THEN entry.artist ELSE cur.artist

\* C7 as stated: in every mode, a step that ends an item without an import
\* success (no results, no title match, all candidates failed, no
\* selectedId) writes exactly one failed or skipped record for it.
C7_Original ==
    [][ ( \/ Ends({"skipped", "failed", "unselected"})
          \/ Ends({"collected"}) /\ MatchingResults(cur.title, all_results) = <<>> )
        => /\ OneDiscardRecord(HandledTitle, HandledArtist)
           /\ disk' = progress' ]_vars

\* C7, amended: in single-phase mode every item that ends with no results,
\* no title match or all candidates failed, and in download-from mode every
\* entry whose selected import fails and, with the mark-unselected-skipped
\* opt-in, every entry without selectedId, gets exactly one failed or skipped
\* record, written and persisted by the step that ends it; and no item or
\* entry ends in another way without an import success, except an entry
\* without selectedId when the opt-in is off, an item of a search-only run
\* and an item with candidates of a dry run.
C7_EveryDiscardRecorded ==
    [][ /\ Ends({"skipped", "failed"})
            => /\ OneDiscardRecord(HandledTitle, HandledArtist)
               /\ disk' = progress'
               /\ Len(progress'.processed) = Len(progress.processed) + 1
        /\ Ends({"unselected"})
            => args.mode = "download_from" /\ ~args.mark_unselected_skipped
        /\ Ends({"collected"}) => args.mode = "search_only"
        /\ Ends({"dry_run"}) => args.mode = "single" /\ args.dry_run
        /\ (pc # "idle" /\ pc' # "idle" /\ Len(handled') = Len(handled) + 1)
            => Last(handled').outcome \in {"skipped", "failed", "unselected", "collected",
                                          "dry_run", "added", "already_processed"} ]_vars

\* C7, the case: a download-from run with the opt-in has discarded an entry
\* without selectedId and persisted its one skipped record
C7_Witness ==
    /\ pc = "download"
    /\ args.mark_unselected_skipped
    /\ handled # <<>>
    /\ Last(handled).outcome = "skipped"
    /\ disk.skipped # <<>>
    /\ Last(disk.skipped).reason = "No selectedId in candidates"
    /\ Last(handled).line \in Range(disk.processed)

\* C8: Phase A has no side effects. While a search-only run is under way the
\* persisted ledger and the ledger in memory are the ledger the run loaded,
\* and no import call is made, also after items without candidates.
C8_SearchOnlyNoSideEffects ==
    (pc # "idle" /\ args.mode = "search_only") =>
        /\ ~torn
        /\ disk = ledger0
        /\ progress = ledger0
        /\ imported = <<>>
        /\ \A k \in 1..Len(handled) : handled[k].outcome = "collected"

\* C8, the case: a search-only run over a ledger that is not empty has
\* collected an entry without candidates
C8_Witness ==
    /\ pc = "collect"
    /\ args.mode = "search_only"
    /\ ledger0 # EmptyProgress
    /\ collected # <<>>
    /\ Last(collected).candidates = <<>>
    /\ searched # <<>>

\* the current entry of a download-from run is not processed, in the ledger
\* or in processed_set
EntryUnprocessed ==
    /\ pc = "download"
    /\ i < Len(candidates_data)
    /\ EntryLine(entry) \notin Range(progress.processed)
    /\ EntryLine(entry) \notin processed_set

\* C9: Phase B with selectedId. For an unprocessed entry with a selectedId,
\* the run makes exactly one import call, with that id, and nothing is
\* written before the call has returned; the step that follows makes no
\* further call: on success it appends exactly one added record with that
\* id, on failure exactly one failed record, nothing else is written, and in
\* both cases the line is appended to processed and the ledger is persisted.
C9_SelectedImport ==
    [][ /\ (EntryUnprocessed /\ ~Unselected(entry) /\ pc' # "idle") =>
               /\ pc' = "selected"
               /\ Len(imported') = 1
               /\ imported'[1].id = entry.selectedId
               /\ progress' = progress
               /\ disk' = disk
               /\ i' = i
        /\ (pc = "selected" /\ pc' # "idle") =>
               /\ imported' = imported
               /\ Len(imported) = 1
               /\ imported[1].id = entry.selectedId
               /\ IF imported[1].ok
                  THEN /\ progress'.added =
                              Append(progress.added,
                                     AddedRecord(entry.title, entry.artist, entry.selectedId))
                       /\ progress'.failed = progress.failed
                  ELSE /\ Len(progress'.failed) = Len(progress.failed) + 1
                       /\ SubSeq(progress'.failed, 1, Len(progress.failed)) = progress.failed
                       /\ Last(progress'.failed).title = entry.title
                       /\ Last(progress'.failed).artist = entry.artist
                       /\ progress'.added = progress.added
                       /\ progress'.skipped = progress.skipped
               /\ progress'.processed = Append(progress.processed, EntryLine(entry))
               /\ disk' = progress'
               /\ i' = i + 1
               /\ pc' = "download" ]_vars

\* C9, the case: the second entry of a batch was imported with its
\* selectedId and added, after the import of the first one had failed
C9_Witness ==
    /\ pc = "download"
    /\ i = 2
    /\ handled[1].outcome = "failed"
    /\ handled[2].outcome = "added"
    /\ imported = <<[id |-> candidates_data[2].selectedId, ok |-> TRUE]>>
    /\ Last(disk.added).song_id = candidates_data[2].selectedId

\* C10: Phase B without selectedId. For an unprocessed entry without
\* selectedId, the step of the run makes no import call; without the opt-in
\* it leaves the ledger, in memory and persisted, and processed_set alone,
\* so that the entry stays unprocessed; with the opt-in it writes exactly one
\* skipped record with reason "No selectedId in candidates", appends the line
\* to processed and persists the ledger.
C10_UnselectedEntry ==
    [][ (EntryUnprocessed /\ Unselected(entry) /\ pc' # "idle") =>
            /\ imported' = <<>>
            /\ i' = i + 1
            /\ IF args.mark_unselected_skipped
               THEN /\ Last(progress'.skipped) =
                           ReasonRecord(entry.title, entry.artist,
                                        "No selectedId in candidates")
                    /\ OnlyLastIsNew(progress'.skipped, progress.skipped)
                    /\ progress'.added = progress.added
                    /\ progress'.failed = progress.failed
                    /\ progress'.processed = Append(progress.processed, EntryLine(entry))
                    /\ disk' = progress'
               ELSE /\ progress' = progress
                    /\ disk' = disk
                    /\ processed_set' = processed_set
                    /\ EntryLine(entry) \notin Range(disk'.processed) ]_vars

\* C10, the case: a run without the opt-in has passed over an entry without
\* selectedId, which is still unprocessed
C10_Witness ==
    /\ pc = "download"
    /\ ~args.mark_unselected_skipped
    /\ i >= 1
    /\ Last(handled).outcome = "unselected"
    /\ Last(handled).line \notin Range(disk.processed)
    /\ disk = ledger0

\* a download-from run has reached an entry whose line is in the processed
\* list of the ledger
AtProcessedEntry ==
    /\ pc = "download"
    /\ i < Len(candidates_data)
    /\ EntryLine(entry) \in Range(progress.processed)

\* C11: Phase B skips processed entries. A step of a download-from run at an
\* entry whose originalKey is in processed when the entry is reached (by an
\* earlier run or by an earlier entry of this run) makes no import call and
\* writes no ledger record, and the run moves on to the next entry.
C11_SkipProcessedEntry ==
    [][ (AtProcessedEntry /\ pc' # "idle") =>
            /\ imported' = <<>>
            /\ progress' = progress
            /\ disk' = disk
            /\ i' = i + 1 ]_vars

\* the added records of the ledger put aside (the outcome of the single-phase
\* route) for the title and the artist of an entry
KeptAdded(e) ==
    {r \in Range(kept[1].added) : r.title = e.title /\ r.artist = e.artist}

\* the two-phase route has called the import collaborator for an unprocessed
\* entry whose selectedId is its top-ranked candidate, for an item the
\* single-phase route added
RoundTripEntry ==
    /\ pc = "selected"
    /\ imported[1].id = entry.selectedId
    /\ kept # <<>>
    /\ EntryLine(entry) \notin Range(progress.processed)
    /\ entry.candidates # <<>>
    /\ entry.selectedId = entry.candidates[1].id
    /\ KeptAdded(entry) # {}

\* C12 as stated: for an item the single-phase route added, the two-phase
\* route with selectedId set to the top-ranked candidate, against the same
\* remote, appends the same added record (title, artist, id).
C12_Original ==
    [][ RoundTripEntry =>
            \E r \in KeptAdded(entry) : progress'.added = Append(progress.added, r)
      ]_vars

\* C12, amended: for an item the single-phase route added with the id of its
\* top-ranked candidate (its first import succeeded), the two-phase route
\* with selectedId set to the top-ranked candidate, against the same remote,
\* appends the same added record (title, artist, id), marks the item
\* processed and persists the ledger.
C12_RoundTrip ==
    [][ (RoundTripEntry /\ \E r \in KeptAdded(entry) : r.song_id = entry.selectedId) =>
            /\ \E r \in KeptAdded(entry) :
                   /\ r.song_id = entry.selectedId
                   /\ progress'.added = Append(progress.added, r)
            /\ progress'.processed = Append(progress.processed, EntryLine(entry))
            /\ disk' = progress'
      ]_vars

\* C12, the case: the two-phase route has added, from an entry with several
\* candidates, the record the single-phase route had added
C12_Witness ==
    /\ pc = "download"
    /\ kept # <<>>
    /\ i >= 1
    /\ Len(candidates_data[i].candidates) >= 2
    /\ handled # <<>>
    /\ Last(handled).outcome = "added"
    /\ disk.added # <<>>
    /\ Last(disk.added) \in Range(kept[1].added)
    /\ Last(disk.added).song_id = candidates_data[i].candidates[1].id

\* the step is a run that ends on a fatal error: no token, or a candidates
\* file that cannot be read (after a process that ended otherwise)
FatalExit ==
    /\ pc = "idle"
    /\ last_exit' \in {"no_token", "unreadable"}
    /\ last_exit' # last_exit

\* C13: Fatal errors abort before any item is touched. A run that gets no
\* token (single-phase, search-only or download-from) or cannot read the
\* candidates file ends at once: no item is handled, no search call and no
\* import call is made, and the persisted ledger and the candidates file are
\* what they were.
C13_FatalAbort ==
    [][ FatalExit =>
            /\ pc' = "idle"
            /\ disk' = disk
            /\ torn' = torn
            /\ candFile' = candFile
            /\ searched' = <<>>
            /\ imported' = <<>>
            /\ handled' = <<>>
            /\ last_exit' = "unreadable" => ~candFile.readable
      ]_vars

\* C13, the case: a run ended without a token, over a ledger that holds
\* records and with a readable candidates file at hand
C13_Witness ==
    /\ last_exit = "no_token"
    /\ pc = "idle"
    /\ disk.processed # <<>>
    /\ candFile.readable

\* the positions of the source list whose line was not in processed when the
\* run loaded the ledger
Unprocessed0 == {k \in 1..Len(songs) : songs[k].line \notin Range(ledger0.processed)}

\* the j-th of these positions, in list order
NthUnprocessed(j) ==
    CHOOSE k \in Unprocessed0 : Cardinality({m \in Unprocessed0 : m < k}) = j - 1

\* C14: Item ordering and limit. A single-phase run with limit `count`
\* attempts exactly the first min(count, number of unprocessed items) items
\* of the source list that were unprocessed at its start, in list order, one
\* after the other: the items done are the first i of them, and the search
\* and import calls on record are those of the item under way (or of the
\* item just done).
C14_OrderAndLimit ==
    (pc # "idle" /\ args.mode = "single") =>
        /\ Len(to_process) = Min({args.count, Cardinality(Unprocessed0)})
        /\ \A j \in 1..Len(to_process) : to_process[j] = songs[NthUnprocessed(j)]
        /\ Len(handled) = i
        /\ i <= Len(to_process)
        /\ \A j \in 1..i : handled[j].line = to_process[j].line
        /\ pc \in {"search", "filter", "import"} =>
               /\ i < Len(to_process)
               /\ \A k \in 1..Len(searched) :
                      searched[k].query = get_search_queries(cur.title, cur.artist)[k]
               /\ \A k \in 1..Len(imported) :
                      \E m \in 1..Len(all_results) :
                          /\ all_results[m].r.id = imported[k].id
                          /\ title_matches(title_clean_of(cur.title), all_results[m].r.title)
        /\ (pc = "single" /\ i = 0) => (searched = <<>> /\ imported = <<>>)

\* C14, the case: a run with limit 1 over a list with two unprocessed items
\* has done the first one and stops there
C14_Witness ==
    /\ pc = "single"
    /\ args.mode = "single"
    /\ args.count = 1
    /\ Cardinality(Unprocessed0) = 2
    /\ i = 1
    /\ handled[1].line = songs[1].line
    /\ searched # <<>>

\* the resolution of an item (process_song or collect_candidates) is under way
Resolving == pc \in {"search", "filter", "import", "csearch", "cfilter"}

\* the query that returned results, <<>> (null) if there is none
NonEmptyQuery ==
    IF searched # <<>> /\ Last(searched).n > 0 THEN Last(searched).query ELSE <<>>

\* C15: First-non-empty-query policy. During the resolution of an item, in a
\* single-phase or a search-only run, the search calls are the generated
\* queries in generated order, every call but the last returned nothing, and
\* the loop ends at the first query that returns a non-empty result set or
\* after the last query; an item whose non-empty result set holds no title
\* match is skipped with "No title match" without a further query; the
\* usedQuery that search-only reports and writes is the query that returned
\* results, or null if every query returned empty.
C15_FirstNonEmptyQuery ==
    /\ Resolving =>
          /\ queries = get_search_queries(cur.title, cur.artist)
          /\ Len(searched) <= Len(queries)
          /\ \A k \in 1..Len(searched) : searched[k].query = queries[k]
          /\ \A k \in 1..(Len(searched) - 1) : searched[k].n = 0
          /\ pc \in {"search", "csearch"} =>
                 /\ \A k \in 1..Len(searched) : searched[k].n = 0
                 /\ qi = Len(searched) + 1
          /\ pc \in {"filter", "cfilter", "import"} =>
                 \/ searched # <<>> /\ Last(searched).n > 0
                 \/ Len(searched) = Len(queries)
          /\ pc = "cfilter" => used_query = NonEmptyQuery
    /\ (pc = "collect" /\ i >= 1) => Last(collected).matchedQuery = NonEmptyQuery
    /\ (pc = "single" /\ i >= 1 /\ Last(handled).outcome = "skipped" /\ NonEmptyQuery # <<>>) =>
          /\ Last(progress.skipped).reason = "No title match"
          /\ imported = <<>>

\* C15, the case: the second query returned results, none of which matched
\* the title, and the third query was never sent
C15_Witness ==
    /\ pc = "collect"
    /\ i = 1
    /\ Len(searched) = 2
    /\ searched[1].n = 0
    /\ searched[2].n > 0
    /\ Len(queries) >= 3
    /\ Last(collected).candidates = <<>>
    /\ Last(collected).matchedQuery = queries[2]

\* a single-phase run with --dry-run is under way
DryRun == pc # "idle" /\ args.mode = "single" /\ args.dry_run

\* the item under way in the run has at least one candidate
HasCandidate ==
    /\ pc \in {"filter", "import"}
    /\ MatchingResults(cur.title, all_results) # <<>>

\* C16: Dry run has no import side effects. No step of a single-phase run
\* with dryRun true calls the import collaborator; the steps on an item that
\* has at least one candidate leave the ledger in memory and the persisted
\* ledger as they are (no added, failed or skipped record, not marked
\* processed), and the item ends as reported only at its first candidate;
\* the ledger is written only for an item without candidates.
C16_DryRunNoImport ==
    [][ (DryRun /\ pc' # "idle") =>
            /\ imported = <<>>
            /\ imported' = <<>>
            /\ HasCandidate => (progress' = progress /\ disk' = disk)
            /\ pc = "import" =>
                   /\ ci = 1
                   /\ i' = i + 1
                   /\ Last(handled') = [line |-> cur.line, outcome |-> "dry_run"]
                   /\ pc' = "single"
            /\ disk' # disk =>
                   (pc = "filter" /\ MatchingResults(cur.title, all_results) = <<>>)
      ]_vars

\* C16, the case: a dry run over a ledger that already holds a record has
\* reported an item with several candidates and left the ledger alone
C16_Witness ==
    /\ DryRun
    /\ pc = "single"
    /\ i >= 1
    /\ Last(handled).outcome = "dry_run"
    /\ Len(matching_results) >= 2
    /\ imported = <<>>
    /\ disk = ledger0
    /\ disk.processed # <<>>
    /\ Last(handled).line \notin Range(disk.processed)

\* the run has ended by itself, after the loop over its items
Finished == pc = "idle" /\ last_exit = "finished"

\* C17: The run always continues and completes. A single-phase run (dryRun
\* false) whose calls all return goes on after every item, whatever its
\* outcome, and terminates; it ends only after the last of the items selected
\* for it, and at its end each of these items is in processed and has a
\* terminal record in added, failed or skipped.
C17_RunCompletes ==
    /\ SingleRun ~> Finished
    /\ [][ (SingleRun /\ pc' = "idle") =>
               /\ last_exit' = "finished"
               /\ i = Len(to_process)
               /\ \A k \in 1..Len(to_process) :
                      /\ to_process[k].line \in Range(disk.processed)
                      /\ ListsWith(disk, to_process[k]) # {}
         ]_vars

\* C17, termination alone: a single-phase run (dryRun false) whose calls all
\* return goes on after every item and ends after the last of them, each of
\* them being in processed by then.
C17_Terminates ==
    /\ SingleRun ~> Finished
    /\ [][ (SingleRun /\ pc' = "idle") =>
               /\ last_exit' = "finished"
               /\ i = Len(to_process)
               /\ \A k \in 1..Len(to_process) :
                      to_process[k].line \in Range(disk.processed)
         ]_vars

\* the result of the search response that has this id, with its index
Found(id) == CHOOSE x \in Range(all_results) : x.r.id = id

\* the ids of a sequence of candidates or of imports
IdsOf(seq) == [k \in 1..Len(seq) |-> seq[k].id]

\* the ids of a ranked sequence of (result, index) pairs
RankedIds(seq) == [k \in 1..Len(seq) |-> seq[k].r.id]

\* ids of the search response in ranked order: descending popularity
\* (absent or null counted as 0) and, among equal popularity, ascending index
InRankOrder(ids) ==
    \A j, k \in 1..Len(ids) :
        j < k => \/ Popularity(Found(ids[j]).r) > Popularity(Found(ids[k]).r)
                 \/ /\ Popularity(Found(ids[j]).r) = Popularity(Found(ids[k]).r)
                    /\ Found(ids[j]).idx < Found(ids[k]).idx

\* the matching results are the example of the specification: popularity
\* 10, 20, 20 at the indices 0, 1, 2
IsExample(matching) ==
    /\ Len(matching) = 3
    /\ \A k \in 1..3 : matching[k].idx = k - 1
    /\ [k \in 1..3 |-> Popularity(matching[k].r)] = <<10, 20, 20>>

\* C18: Candidate ranking. For any matching results, the order in which the
\* candidates are attempted (single-phase) or returned (search-only) is
\* sorted by descending popularity, a missing or null popularity counted as
\* 0, and among equal popularity by ascending index in the search response;
\* the ranked sequence is a permutation of the matching results; the example
\* [A pop 10 idx 0, B pop 20 idx 1, C pop 20 idx 2] is ordered [B, C, A].
C18_CandidateRanking ==
    /\ (args.mode = "single" /\ pc = "import") =>
           LET matching == MatchingResults(cur.title, all_results)
           IN  /\ InRankOrder(RankedIds(matching_results))
               /\ Len(matching_results) = Len(matching)
               /\ Range(matching_results) = Range(matching)
               /\ IdsOf(imported) = SubSeq(RankedIds(matching_results), 1, Len(imported))
               /\ IsExample(matching) =>
                      RankedIds(matching_results)
                          = <<matching[2].r.id, matching[3].r.id, matching[1].r.id>>
    /\ (args.mode = "search_only" /\ pc = "collect" /\ i >= 1) =>
           LET matching == MatchingResults(done.title, all_results)
               returned == IdsOf(Last(collected).candidates)
           IN  /\ InRankOrder(returned)
               /\ InRankOrder(RankedIds(matching_results))
               /\ Len(matching_results) = Len(matching)
               /\ Range(matching_results) = Range(matching)
               /\ (IsExample(matching) /\ args.top >= 3) =>
                      returned = <<matching[2].r.id, matching[3].r.id, matching[1].r.id>>

\* C18, the case: the three results of the example, all of them attempted
\* in the order B, C, A
C18_Witness ==
    /\ args.mode = "single"
    /\ pc = "import"
    /\ IsExample(MatchingResults(cur.title, all_results))
    /\ IdsOf(imported) = <<"B", "C", "A">>

\* the parts of the priority list of the Query Generator
CleanTitle(title) == title_clean_of(title)

CleanArtist(artist) == RemoveX(RemoveFt(Strip(BeforeSlash(artist))))

SimpleTitle(title) == CollapseSpaces(Strip(RemovePunctuation(CleanTitle(title))))

SimpleArtist(artist) == Strip(RemovePunctuation(CleanArtist(artist)))

FirstToken(title) == FirstWord(SimpleTitle(title))

\* clean title, clean title + clean artist, simple title, simple title +
\* simple artist, clean artist, simple title, first token
PriorityList(title, artist) ==
    << CleanTitle(title),
       CleanTitle(title) \o <<" ">> \o CleanArtist(artist),
       SimpleTitle(title),
       SimpleTitle(title) \o <<" ">> \o SimpleArtist(artist),
       CleanArtist(artist),
       SimpleTitle(title),
       FirstToken(title) >>

\* the first place of the priority list that holds this query
FirstPlace(list, query) == Min({k \in 1..Len(list) : list[k] = query})

\* at most 7 queries, none of them empty, no two of them equal, each of them
\* an entry of the priority list, in the order of their first places there;
\* the first five entries are kept unless they are empty
ShapeOfQueries(title, artist, out) ==
    LET list == PriorityList(title, artist)
    IN  /\ Len(out) <= 7
        /\ \A k \in 1..Len(out) : out[k] # <<>>
        /\ \A j, k \in 1..Len(out) : j # k => out[j] # out[k]
        /\ \A k \in 1..Len(out) : out[k] \in Range(list)
        /\ \A j, k \in 1..Len(out) :
               j < k => FirstPlace(list, out[j]) < FirstPlace(list, out[k])
        /\ \A k \in 1..5 : list[k] # <<>> => list[k] \in Range(out)

\* the queries of the current item have been computed
HasQueries == args.mode = "single" /\ pc \in {"search", "filter"}

\* C19, as stated: Query Generator output shape. For every (title, artist)
\* the query list has at most 7 entries, no empty string and no duplicate,
\* keeps the entries in first-occurrence order of the priority list, and
\* contains the first-token query only if that token is longer than 3
\* characters.
C19_Original ==
    HasQueries =>
        /\ ShapeOfQueries(cur.title, cur.artist, queries)
        /\ FirstToken(cur.title) \in Range(queries) => Len(FirstToken(cur.title)) > 3

\* C19, amended: Query Generator output shape. For every (title, artist)
\* the query list has at most 7 entries, no empty string and no duplicate,
\* and keeps the entries in first-occurrence order of the priority list; it
\* contains the first token of the title as a query only if that token is
\* longer than 3 characters or is also one of the first five entries of the
\* priority list (a title of one short word is its own first token).
C19_QueryShape ==
    HasQueries =>
        /\ ShapeOfQueries(cur.title, cur.artist, queries)
        /\ FirstToken(cur.title) \in Range(queries) =>
               \/ Len(FirstToken(cur.title)) > 3
               \/ \E k \in 1..5 :
                      PriorityList(cur.title, cur.artist)[k] = FirstToken(cur.title)

\* C19, the case: a title whose simple form differs from its clean form and
\* whose first token is longer than 3 characters, so that the list has six
\* queries and the last one is the first token
C19_Witness ==
    /\ HasQueries
    /\ Len(queries) = 6
    /\ Last(queries) = FirstToken(cur.title)
    /\ SimpleTitle(cur.title) # CleanTitle(cur.title)
    /\ CleanArtist(cur.artist) # cur.artist

\* the entries the candidates file holds for this line
EntriesOf(line) ==
    IF candFile.readable
    THEN {e \in Range(candFile.data) : e.original_line = line}
    ELSE {}

\* the first n elements of a sequence, or all of it when it is shorter
FirstOf(seq, n) == SubSeq(seq, 1, IF n < Len(seq) THEN n ELSE Len(seq))

\* C20: Phase A candidates are a prefix of the single-phase attempt order.
\* The remote service answering every search as a function of the query,
\* the candidate ids a search-only run with --top N has written for an item
\* are the first min(N, number of matching results) ids, in the same order,
\* of the ranked sequence a single-phase run attempts for that item; when
\* the single-phase run finds no candidate for the item, none was written.
C20_CandidatesArePrefix ==
    (remote.fixed /\ args.mode = "single" /\ ~args.dry_run) =>
        /\ pc = "import" =>
               \A e \in EntriesOf(cur.line) :
                   /\ IdsOf(e.candidates)
                          = FirstOf(RankedIds(matching_results), written_top)
                   /\ IdsOf(imported)
                          = FirstOf(RankedIds(matching_results), Len(imported))
        /\ (pc = "single" /\ i >= 1 /\ Last(handled).outcome = "skipped") =>
               \A e \in EntriesOf(done.line) : e.candidates = <<>>

\* C20, the case: three matching results of which a search-only run with
\* --top 2 has written the two most popular, the first of them being the
\* last result of the response; the single-phase run has attempted all three
C20_Witness ==
    /\ remote.fixed
    /\ args.mode = "single"
    /\ pc = "import"
    /\ written_top = 2
    /\ Len(imported) = 3
    /\ \E e \in EntriesOf(cur.line) :
           /\ Len(e.candidates) = 2
           /\ e.candidates[1].id = "C"

\* the terminal records the persisted ledger holds for a title and an artist
TerminalRecords(p, item) ==
    [kind \in {"added", "failed", "skipped"} |->
        {p[kind][k] : k \in RecordsOf(p[kind], item)}]

\* the step records a terminal outcome (added, failed or skipped) of an item
RecordsOutcome ==
    /\ pc # "idle"
    /\ Len(handled') = Len(handled) + 1
    /\ Last(handled').outcome \in {"added", "failed", "skipped"}

\* C21: Frame property. A step that records a terminal outcome of one item
\* (added, failed or skipped, in single-phase or download-from mode) leaves
\* the terminal records of every other item, one with a different
\* originalKey, as they were, also when the other item has the same title
\* and another artist.
C21_OtherRecordsKept ==
    [][ RecordsOutcome =>
            \A item \in Items :
                item.line # Last(handled').line =>
                    TerminalRecords(disk', item) = TerminalRecords(disk, item)
      ]_vars

\* how often a line occurs in processed
TimesProcessed(p, line) == Cardinality({k \in 1..Len(p.processed) : p.processed[k] = line})

\* C22: At-most-once handling. After any sequence of runs in any mode, over
\* any source list or candidate batch, repeated originalKeys included, each
\* originalKey occurs at most once in processed of the persisted ledger, and
\* added holds at most one record for it (the import collaborator has
\* succeeded at most once for it).
C22_AtMostOnce ==
    \A item \in Items :
        /\ TimesProcessed(disk, item.line) <= 1
        /\ Cardinality(RecordsOf(disk.added, item)) <= 1

====
